---- MODULE Spec2Model ----
(***************************************************************************)
(* article-assistant: the three stores (StructureManager, StyleManager,    *)
(* KnowledgeBase), the tool adapters that expose them to agents, and the   *)
(* workflow driver generate_article_workflow.                              *)
(*                                                                         *)
(* Text is modelled as data: a heading, a title or a keyword is an atomic  *)
(* string, the contents of a section is a sequence of characters. A        *)
(* character is a string: itself when it is printable ASCII or one of      *)
(* "\t", "\n", "\f", "\r", and otherwise (also) "u" followed by the four   *)
(* lower-case hexadecimal digits of its code point, e.g. "u4e2d", "u3000", *)
(* "u000b".                                                                *)
(***************************************************************************)
EXTENDS Integers, Sequences, FiniteSets, TLC

VARIABLES
    outline,              \* StructureManager.outline.outline_items
    sections,             \* StructureManager.sections
    keywords,             \* StructureManager.keywords
    title,                \* StructureManager.title
    existed_section_idxs, \* StructureManager._existed_section_idxs
    concepts,             \* KnowledgeBase.concepts
    style_guide,          \* StyleManager.style_guide
    ret,                  \* the last direct call of a store method: what was called, what it returned or raised
    exc,                  \* the last tool function call: the tool, the context it got, the exception it raised
    pc,                   \* generate_article_workflow / main2: where the run is
    body_items,           \* the list the first for loop iterates: outline_items[1:-1] when the loop began
    body_i,               \* the first loop's idx
    bookend_i,            \* how many of [0, -1] the second loop has done
    section_result,       \* section_result.output of the last scriber run
    section_result_at,    \* place in sections of that very object, 0 when it is not stored
    trace,                \* history: agent invocations, their outcomes, the driver's calls, in order
    article,              \* what generate_article_workflow returned
    output_file,          \* the contents of output.md
    tool_calls,           \* tool calls made by the agents of this run
    add_section_calls     \* add_section tool calls that passed the check of line 88 and have not returned

smVars == <<outline, sections, keywords, title, existed_section_idxs>>
storeVars == <<outline, sections, keywords, title, existed_section_idxs, concepts, style_guide>>
wfVars == <<pc, body_items, body_i, bookend_i, section_result, section_result_at, trace, article, output_file,
            tool_calls, add_section_calls>>

\* ------------------------------------------------------------------ bounds

\* Section indices used by callers of the StructureManager API: 0..MaxIdx.
MaxIdx == 1

\* ------------------------------------------------------------ Python helpers

Min(a, b) == IF a <= b THEN a ELSE b
Max(a, b) == IF a >= b THEN a ELSE b

\* seq[:k] of Python: a negative k counts from the end, an overlong k is clipped.
PySlicePrefix(seq, k) ==
    IF k >= 0 THEN SubSeq(seq, 1, Min(k, Len(seq)))
    ELSE SubSeq(seq, 1, Max(Len(seq) + k, 0))

\* seq[lo:hi] of Python for lo >= 0 and hi < 0, as in outline_items[1:-1].
PySliceInner(seq, lo, hi) ==
    LET start == Min(lo, Len(seq))
        stop == Max(Len(seq) + hi, 0)
    IN IF stop <= start THEN <<>> ELSE SubSeq(seq, start + 1, stop)

\* Whether seq[i] of Python raises IndexError.
PyIndexRaises(seq, i) == ~(-Len(seq) <= i /\ i < Len(seq))

\* seq[i] of Python for an index in range: a negative i counts from the end.
PyIndex(seq, i) == IF i >= 0 THEN seq[i + 1] ELSE seq[Len(seq) + i + 1]

\* sep.join(seq) of Python, as the sequence of its pieces.
RECURSIVE PyJoin(_, _)
PyJoin(sep, seq) ==
    IF Len(seq) = 0 THEN <<>>
    ELSE IF Len(seq) = 1 THEN <<seq[1]>>
    ELSE <<seq[1], sep>> \o PyJoin(sep, Tail(seq))

\* ------------------------------------------------------------------- types

\* types.py OutlineItem
OutlineItem(t, p) ==
    [title |-> t, purpose |-> p, argument |-> "arg", expected_conclusion |-> "concl",
     expected_length |-> 300]

ItemTitles == <<"Intro", "BodyA", "BodyB", "BodyC", "Concl", "Extra">>

\* An outline of n distinct items, as an architect (or a set_outline caller) may produce it.
OutlineOfLen(n) == [k \in 1..n |-> OutlineItem(ItemTitles[k], "purpose")]

\* types.py SectionInfo
SectionInfo(i, h, c, s) == [section_index |-> i, heading |-> h, contents |-> c, summary |-> s]

HeadingsA == <<"H0", "H1", "H2", "H3", "H4", "H5">>
HeadingsB == <<"G0", "G1", "G2", "G3", "G4", "G5">>
ContentsA == <<"a", "b", " ", "c">>
ContentsB == <<"u4e2d", "u6587", " ", "x">>

\* The sections callers pass: two different sections for every index.
SectionA(i) == SectionInfo(i, HeadingsA[i + 1], ContentsA, "sumA")
SectionB(i) == SectionInfo(i, HeadingsB[i + 1], ContentsB, "sumB")
SectionInputs == {SectionA(i) : i \in 0..MaxIdx} \cup {SectionB(i) : i \in 0..MaxIdx}

HexDigit(n, place) ==
    <<"0", "1", "2", "3", "4", "5", "6", "7", "8", "9", "a", "b", "c", "d", "e", "f">>[
        ((n \div place) % 16) + 1]

\* A character written by its code point: "u" and four hexadecimal digits.
CodeName(n) == "u" \o HexDigit(n, 4096) \o HexDigit(n, 256) \o HexDigit(n, 16) \o HexDigit(n, 1)

\* The code points str.split() separates on (those with str.isspace()):
\* \t \n \x0b \x0c \r, \x1c-\x1f, space, \x85, \xa0, U+1680, U+2000-U+200A,
\* U+2028, U+2029, U+202F, U+205F, U+3000.
WhitespaceCodePoints ==
    (9..13) \cup (28..32) \cup {133, 160, 5760} \cup (8192..8202)
    \cup {8232, 8233, 8239, 8287, 12288}

Whitespace == {" ", "\t", "\n", "\f", "\r"} \cup {CodeName(n) : n \in WhitespaceCodePoints}

\* [\u4e00-\u9fff]: the 20992 code points U+4E00 .. U+9FFF.
CJK == {CodeName(n) : n \in 19968..40959}

\* SectionInfo.word_count: len(contents.split()) + the number of CJK ideographs.
word_count(contents) ==
    Cardinality({i \in DOMAIN contents :
                   /\ contents[i] \notin Whitespace
                   /\ (i = 1 \/ contents[i - 1] \in Whitespace)})
    + Cardinality({i \in DOMAIN contents : contents[i] \in CJK})

\* ------------------------------------------------------- StructureManager

\* contents[:100]
SummaryPrefixLen == 100

Indices(secs) == {secs[k].section_index : k \in DOMAIN secs}

\* list.sort(key=lambda s: s.section_index): stable, ascending. The place of
\* element j after the sort: the elements with a smaller index go before it, and
\* of those with the same index the ones that were before it.
SortedPlace(secs, j) ==
    Cardinality({k \in DOMAIN secs :
                    \/ secs[k].section_index < secs[j].section_index
                    \/ secs[k].section_index = secs[j].section_index /\ k <= j})

SortByIndex(secs) ==
    [r \in DOMAIN secs |-> secs[CHOOSE j \in DOMAIN secs : SortedPlace(secs, j) = r]]

set_outline_resets(o) ==
    /\ outline' = o
    /\ sections' = <<>>
    /\ existed_section_idxs' = {}
    /\ UNCHANGED <<keywords, title>>

set_outline(o) == outline' = o /\ UNCHANGED <<sections, keywords, title, existed_section_idxs>>

list_outline_items == outline

get_section_plan_raises(section_index) == PyIndexRaises(outline, section_index)
get_section_plan(section_index) == PyIndex(outline, section_index)

\* One line of the digest: "- {heading}: {contents[:100]}...\n"
SummaryEntry(sec) ==
    [bullet |-> "- ", heading |-> sec.heading, sep |-> ": ",
     prefix |-> PySlicePrefix(sec.contents, SummaryPrefixLen), tail |-> "...\n"]

get_context_summary(section_index) ==
    LET prev == PySlicePrefix(sections, section_index)
    IN [header |-> "Previous Sections Summary:\n",
        entries |-> [k \in DOMAIN prev |-> SummaryEntry(prev[k])]]

add_section_skips(section) == section.section_index \in existed_section_idxs

add_section_forgets(section) ==
    /\ IF add_section_skips(section)
       THEN UNCHANGED sections
       ELSE sections' = Append(sections, section)
    /\ UNCHANGED <<existed_section_idxs, outline, keywords, title>>

add_section_noguard(section) ==
    /\ sections' = Append(sections, section)
    /\ existed_section_idxs' = existed_section_idxs \cup {section.section_index}
    /\ UNCHANGED <<outline, keywords, title>>

add_section_overwrite(section) ==
    /\ IF add_section_skips(section)
       THEN sections' = [k \in DOMAIN sections |->
                            IF sections[k].section_index = section.section_index
                            THEN section ELSE sections[k]]
       ELSE sections' = Append(sections, section)
    /\ existed_section_idxs' = existed_section_idxs \cup {section.section_index}
    /\ UNCHANGED <<outline, keywords, title>>

add_section(section) ==
    /\ IF add_section_skips(section)
       THEN UNCHANGED <<sections, existed_section_idxs>>
       ELSE /\ sections' = Append(sections, section)
            /\ existed_section_idxs' = existed_section_idxs \cup {section.section_index}
    /\ UNCHANGED <<outline, keywords, title>>

FirstWithIndexAny(section_index) == IF sections = <<>> THEN 0 ELSE 1

\* The position of the first section with this index, 0 when there is none.
FirstWithIndex(section_index) ==
    LET hits == {k \in DOMAIN sections : sections[k].section_index = section_index}
    IN IF hits = {} THEN 0 ELSE CHOOSE k \in hits : \A j \in hits : k <= j

modify_section_raises(section_index) == FirstWithIndex(section_index) = 0

modify_section_rebuilds(section_index, new_content) ==
    /\ IF modify_section_raises(section_index)
       THEN UNCHANGED sections
       ELSE sections' = [sections EXCEPT ![FirstWithIndex(section_index)] =
                            SectionInfo(section_index, "", new_content, "")]
    /\ UNCHANGED <<outline, keywords, title, existed_section_idxs>>

modify_section(section_index, new_content) ==
    /\ IF modify_section_raises(section_index)
       THEN UNCHANGED sections
       ELSE sections' = [sections EXCEPT ![FirstWithIndex(section_index)].contents = new_content]
    /\ UNCHANGED <<outline, keywords, title, existed_section_idxs>>

get_section_raises(section_index) == FirstWithIndex(section_index) = 0
get_section(section_index) == sections[FirstWithIndex(section_index)]

RECURSIVE SumWordCounts(_)
SumWordCounts(secs) ==
    IF secs = <<>> THEN 0 ELSE word_count(Head(secs).contents) + SumWordCounts(Tail(secs))

total_word_count_skips_last ==
    SumWordCounts(SubSeq(sections, 1, Max(Len(sections) - 1, 0)))

total_word_count == SumWordCounts(sections)

\* "## {heading}\n\n{contents}"
SectionBlock(sec) == [mark |-> "## ", heading |-> sec.heading, gap |-> "\n\n", body |-> sec.contents]

RenderMarkdownTight(t, kws, secs) ==
    [title_line |-> <<"# ", t, "\n">>,
     keywords_line |-> <<"Keywords: ">> \o PyJoin(", ", kws) \o <<"\n">>,
     blocks |-> PyJoin("\n\n", [k \in DOMAIN secs |-> SectionBlock(secs[k])])]

\* The markdown text, piece by piece, of a title, keywords and sections in the order given.
RenderMarkdown(t, kws, secs) ==
    [title_line |-> <<"# ", t, "\n\n">>,
     keywords_line |-> <<"Keywords: ">> \o PyJoin(", ", kws) \o <<"\n\n">>,
     blocks |-> PyJoin("\n\n", [k \in DOMAIN secs |-> SectionBlock(secs[k])])]

to_markdown_unsorted == sections

to_markdown_sorted == SortByIndex(sections)

to_markdown_value == RenderMarkdown(title, keywords, to_markdown_sorted)

to_markdown_resets_guard ==
    /\ sections' = to_markdown_sorted
    /\ existed_section_idxs' = {}
    /\ UNCHANGED <<outline, keywords, title>>

to_markdown ==
    /\ sections' = to_markdown_sorted
    /\ UNCHANGED <<outline, keywords, title, existed_section_idxs>>

set_keywords(kws) == keywords' = kws /\ UNCHANGED <<outline, sections, title, existed_section_idxs>>
get_keywords == keywords
set_title(t) == title' = t /\ UNCHANGED <<outline, sections, keywords, existed_section_idxs>>
get_title == title

\* ------------------------------------------------------------ StyleManager

\* types.py StyleGuide
StyleGuide(lang, tone, voice, audience, fmt) ==
    [main_language |-> lang, tone |-> tone, voice |-> voice,
     target_audience |-> audience, formatting_preferences |-> fmt]

set_style_guide_merge(sg) ==
    style_guide' = [sg EXCEPT !.formatting_preferences = style_guide.formatting_preferences]

set_style_guide(sg) == style_guide' = sg
get_style_guide == style_guide

\* prompt_parts of style_guide_to_prompt, each part as its label and its value.
PromptParts(sg) ==
    <<<<"Main Language: ", sg.main_language>>, <<"Tone: ", sg.tone>>, <<"Voice: ", sg.voice>>,
      <<"Target Audience: ", sg.target_audience>>>>
    \o (IF sg.formatting_preferences # ""
        THEN <<<<"Formatting Preferences: ", sg.formatting_preferences>>>>
        ELSE <<>>)

style_guide_to_prompt_always ==
    PyJoin("\n", PromptParts(style_guide)
                    \o (IF style_guide.formatting_preferences = ""
                        THEN <<<<"Formatting Preferences: ", "">>>>
                        ELSE <<>>))

\* "\n".join(prompt_parts)
style_guide_to_prompt == PyJoin("\n", PromptParts(style_guide))

\* ----------------------------------------------------------- KnowledgeBase

\* types.py ConceptInfo
ConceptInfo(n, d, r) == [name |-> n, definition |-> d, relevance |-> r]

add_concept_prepend(concept) == concepts' = <<concept>> \o concepts

add_concept_dedup(concept) ==
    concepts' = IF \E k \in DOMAIN concepts : concepts[k].name = concept.name
                THEN concepts
                ELSE Append(concepts, concept)

add_concept(concept) == concepts' = Append(concepts, concept)

get_concept_last(name) ==
    LET hits == {k \in DOMAIN concepts : concepts[k].name = name}
    IN IF hits = {} THEN "None"
       ELSE concepts[CHOOSE k \in hits : \A j \in hits : k >= j]

get_concept(name) ==
    LET hits == {k \in DOMAIN concepts : concepts[k].name = name}
    IN IF hits = {} THEN "None"
       ELSE concepts[CHOOSE k \in hits : \A j \in hits : k <= j]

list_concepts == [k \in DOMAIN concepts |-> concepts[k].name]

\* ------------------------------------------------------------ tool adapters
\* ctx.deps is modelled by its type and by what each attribute a tool may be
\* configured with is bound to: "absent" when deps has no such attribute, else
\* the type of the bound value ("NoneType" for None). One instance of each store
\* exists, so a value of a store's type is that store.

Deps(type, sm, sty, kb) ==
    [type |-> type, structure_manager |-> sm, style_manager |-> sty, knowledge_base |-> kb]

\* getattr(ctx.deps, attr_name) raises AttributeError when deps has no such attribute.
GetattrRaises(deps, attr_name) == attr_name # "" /\ deps[attr_name] = "absent"

\* The type of: getattr(ctx.deps, attr_name) if attr_name else ctx.deps
ResolvedType(deps, attr_name) == IF attr_name = "" THEN deps.type ELSE deps[attr_name]

DependencyMissing == "ValueError: dependency is not provided"

\* What the first three statements of every tool function raise.
ResolveRaises(deps, attr_name, cls) ==
    IF GetattrRaises(deps, attr_name) THEN "AttributeError"
    ELSE IF ResolvedType(deps, attr_name) = "NoneType" \/ ResolvedType(deps, attr_name) # cls
         THEN DependencyMissing
         ELSE "none"

\* A tool function call as its caller sees it: the context passed, the exception raised.
ToolCalled(tool, deps, attr_name, raised) ==
    [tool |-> tool, deps |-> deps, attr_name |-> attr_name, raised |-> raised]

notSMStores == <<concepts, style_guide>>
notKBStores == <<outline, sections, keywords, title, existed_section_idxs, style_guide>>
notStyleStores == <<outline, sections, keywords, title, existed_section_idxs, concepts>>

set_outline_tool_raises(deps, attr_name, o) == ResolveRaises(deps, attr_name, "StructureManager")

set_outline_tool(deps, attr_name, o) ==
    /\ IF ResolveRaises(deps, attr_name, "StructureManager") # "none"
       THEN UNCHANGED smVars
       ELSE set_outline(o)
    /\ UNCHANGED notSMStores

list_outline_items_tool_raises(deps, attr_name) == ResolveRaises(deps, attr_name, "StructureManager")

list_outline_items_tool(deps, attr_name) ==
    /\ IF ResolveRaises(deps, attr_name, "StructureManager") # "none"
       THEN UNCHANGED smVars
       ELSE UNCHANGED smVars
    /\ UNCHANGED notSMStores

get_section_plan_tool_raises(deps, attr_name, section_index) ==
    IF ResolveRaises(deps, attr_name, "StructureManager") # "none"
    THEN ResolveRaises(deps, attr_name, "StructureManager")
    ELSE IF get_section_plan_raises(section_index) THEN "IndexError" ELSE "none"

get_section_plan_tool(deps, attr_name, section_index) ==
    /\ IF ResolveRaises(deps, attr_name, "StructureManager") # "none"
       THEN UNCHANGED smVars
       ELSE UNCHANGED smVars
    /\ UNCHANGED notSMStores

get_context_summary_tool_raises(deps, attr_name, section_index) == ResolveRaises(deps, attr_name, "StructureManager")

get_context_summary_tool(deps, attr_name, section_index) ==
    /\ IF ResolveRaises(deps, attr_name, "StructureManager") # "none"
       THEN UNCHANGED smVars
       ELSE UNCHANGED smVars
    /\ UNCHANGED notSMStores

add_section_tool_raises(deps, attr_name, section) == ResolveRaises(deps, attr_name, "StructureManager")

add_section_tool(deps, attr_name, section) ==
    /\ IF ResolveRaises(deps, attr_name, "StructureManager") # "none"
       THEN UNCHANGED smVars
       ELSE add_section(section)
    /\ UNCHANGED notSMStores

modify_section_tool_raises(deps, attr_name, section_index, new_content) ==
    IF ResolveRaises(deps, attr_name, "StructureManager") # "none"
    THEN ResolveRaises(deps, attr_name, "StructureManager")
    ELSE IF modify_section_raises(section_index) THEN "ValueError: section not found" ELSE "none"

modify_section_tool(deps, attr_name, section_index, new_content) ==
    /\ IF ResolveRaises(deps, attr_name, "StructureManager") # "none"
       THEN UNCHANGED smVars
       ELSE modify_section(section_index, new_content)
    /\ UNCHANGED notSMStores

get_section_tool_raises(deps, attr_name, section_index) ==
    IF ResolveRaises(deps, attr_name, "StructureManager") # "none"
    THEN ResolveRaises(deps, attr_name, "StructureManager")
    ELSE IF get_section_raises(section_index) THEN "ValueError: section not found" ELSE "none"

get_section_tool(deps, attr_name, section_index) ==
    /\ IF ResolveRaises(deps, attr_name, "StructureManager") # "none"
       THEN UNCHANGED smVars
       ELSE UNCHANGED smVars
    /\ UNCHANGED notSMStores

set_title_tool_raises(deps, attr_name, t) == ResolveRaises(deps, attr_name, "StructureManager")

set_title_tool(deps, attr_name, t) ==
    /\ IF ResolveRaises(deps, attr_name, "StructureManager") # "none"
       THEN UNCHANGED smVars
       ELSE set_title(t)
    /\ UNCHANGED notSMStores

get_title_tool_raises(deps, attr_name) == ResolveRaises(deps, attr_name, "StructureManager")

get_title_tool(deps, attr_name) ==
    /\ IF ResolveRaises(deps, attr_name, "StructureManager") # "none"
       THEN UNCHANGED smVars
       ELSE UNCHANGED smVars
    /\ UNCHANGED notSMStores

set_keywords_tool_raises(deps, attr_name, kws) == ResolveRaises(deps, attr_name, "StructureManager")

set_keywords_tool(deps, attr_name, kws) ==
    /\ IF ResolveRaises(deps, attr_name, "StructureManager") # "none"
       THEN UNCHANGED smVars
       ELSE set_keywords(kws)
    /\ UNCHANGED notSMStores

get_keywords_tool_raises(deps, attr_name) == ResolveRaises(deps, attr_name, "StructureManager")

get_keywords_tool(deps, attr_name) ==
    /\ IF ResolveRaises(deps, attr_name, "StructureManager") # "none"
       THEN UNCHANGED smVars
       ELSE UNCHANGED smVars
    /\ UNCHANGED notSMStores

add_concept_tool_raises(deps, attr_name, concept) == ResolveRaises(deps, attr_name, "KnowledgeBase")

add_concept_tool(deps, attr_name, concept) ==
    /\ IF ResolveRaises(deps, attr_name, "KnowledgeBase") # "none"
       THEN UNCHANGED concepts
       ELSE add_concept(concept)
    /\ UNCHANGED notKBStores

get_concept_tool_raises_absent(deps, attr_name, name) ==
    IF ResolveRaises(deps, attr_name, "KnowledgeBase") # "none"
    THEN ResolveRaises(deps, attr_name, "KnowledgeBase")
    ELSE IF get_concept(name) = "None" THEN "ValueError: concept not found" ELSE "none"

get_concept_tool_raises(deps, attr_name, name) == ResolveRaises(deps, attr_name, "KnowledgeBase")

get_concept_tool(deps, attr_name, name) ==
    /\ IF ResolveRaises(deps, attr_name, "KnowledgeBase") # "none"
       THEN UNCHANGED concepts
       ELSE UNCHANGED concepts
    /\ UNCHANGED notKBStores

list_concepts_tool_raises(deps, attr_name) == ResolveRaises(deps, attr_name, "KnowledgeBase")

list_concepts_tool(deps, attr_name) ==
    /\ IF ResolveRaises(deps, attr_name, "KnowledgeBase") # "none"
       THEN UNCHANGED concepts
       ELSE UNCHANGED concepts
    /\ UNCHANGED notKBStores

set_style_guide_tool_raises(deps, attr_name, sg) == ResolveRaises(deps, attr_name, "StyleManager")

set_style_guide_tool(deps, attr_name, sg) ==
    /\ IF ResolveRaises(deps, attr_name, "StyleManager") # "none"
       THEN UNCHANGED style_guide
       ELSE set_style_guide(sg)
    /\ UNCHANGED notStyleStores

get_style_guide_tool_raises(deps, attr_name) == ResolveRaises(deps, attr_name, "StyleManager")

get_style_guide_tool(deps, attr_name) ==
    /\ IF ResolveRaises(deps, attr_name, "StyleManager") # "none"
       THEN UNCHANGED style_guide
       ELSE UNCHANGED style_guide
    /\ UNCHANGED notStyleStores

\* --------------------------------------------- the stores after construction

\* types.py StyleGuide, with its defaults
DefaultStyleGuide == StyleGuide("English", "formal", "active", "general", "")

NoCall == [op |-> "none"]
NoToolCall == [tool |-> "none", raised |-> "none"]

\* StructureManager(), KnowledgeBase(), StyleManager(): the field defaults.
StoresInit ==
    /\ outline = <<>>
    /\ sections = <<>>
    /\ keywords = <<>>
    /\ title = ""
    /\ existed_section_idxs = {}
    /\ concepts = <<>>
    /\ style_guide = DefaultStyleGuide

\* -------------------------------- Spec: any caller of the StructureManager API

OutlineInputs == {OutlineOfLen(0), OutlineOfLen(2)}
TitleInputs == {"T1", "T2"}
KeywordInputs == {<<"k1", "k2">>}
ContentInputs == {ContentsA, ContentsB}
\* Arguments of the index-taking queries: below, inside and above the stored range.
QueryIndices == -1..(MaxIdx + 1)

\* What a direct call of a StructureManager method leaves alone.
notSM == <<concepts, style_guide, exc, wfVars>>

Returned(op, arg, val) == [op |-> op, arg |-> arg, val |-> val, err |-> "none"]
Raised(op, arg, err) == [op |-> op, arg |-> arg, val |-> "none", err |-> err]

CallSetOutline ==
    \E o \in OutlineInputs :
        /\ set_outline(o)
        /\ ret' = Returned("set_outline", o, "None")
        /\ UNCHANGED notSM

CallListOutlineItems ==
    /\ ret' = Returned("list_outline_items", "none", list_outline_items)
    /\ UNCHANGED smVars
    /\ UNCHANGED notSM

CallGetSectionPlan ==
    \E i \in QueryIndices :
        /\ ret' = IF get_section_plan_raises(i)
                  THEN Raised("get_section_plan", i, "IndexError")
                  ELSE Returned("get_section_plan", i, get_section_plan(i))
        /\ UNCHANGED smVars
        /\ UNCHANGED notSM

CallGetContextSummary ==
    \E k \in QueryIndices :
        /\ ret' = Returned("get_context_summary", k, get_context_summary(k))
        /\ UNCHANGED smVars
        /\ UNCHANGED notSM

CallAddSection ==
    \E s \in SectionInputs :
        /\ add_section(s)
        /\ ret' = [op |-> "add_section", arg |-> s, val |-> "None", err |-> "none",
                   log |-> IF add_section_skips(s) THEN "warning: already exists" ELSE ""]
        /\ UNCHANGED notSM

CallModifySection ==
    \E i \in 0..MaxIdx, c \in ContentInputs :
        /\ modify_section(i, c)
        /\ ret' = IF modify_section_raises(i)
                  THEN Raised("modify_section", <<i, c>>, "ValueError")
                  ELSE Returned("modify_section", <<i, c>>, "None")
        /\ UNCHANGED notSM

CallGetSection ==
    \E i \in 0..MaxIdx :
        /\ ret' = IF get_section_raises(i)
                  THEN Raised("get_section", i, "ValueError")
                  ELSE Returned("get_section", i, get_section(i))
        /\ UNCHANGED smVars
        /\ UNCHANGED notSM

CallTotalWordCount ==
    /\ ret' = Returned("total_word_count", "none", total_word_count)
    /\ UNCHANGED smVars
    /\ UNCHANGED notSM

CallToMarkdown ==
    /\ to_markdown
    /\ ret' = Returned("to_markdown", sections, to_markdown_value)
    /\ UNCHANGED notSM

CallSetKeywords ==
    \E kws \in KeywordInputs :
        /\ set_keywords(kws)
        /\ ret' = Returned("set_keywords", kws, "None")
        /\ UNCHANGED notSM

CallGetKeywords ==
    /\ ret' = Returned("get_keywords", "none", get_keywords)
    /\ UNCHANGED smVars
    /\ UNCHANGED notSM

CallSetTitle ==
    \E t \in TitleInputs :
        /\ set_title(t)
        /\ ret' = Returned("set_title", t, "None")
        /\ UNCHANGED notSM

CallGetTitle ==
    /\ ret' = Returned("get_title", "none", get_title)
    /\ UNCHANGED smVars
    /\ UNCHANGED notSM

vars == <<outline, sections, keywords, title, existed_section_idxs, concepts, style_guide,
          ret, exc, pc, body_items, body_i, bookend_i, section_result, section_result_at, trace, article,
          output_file, tool_calls, add_section_calls>>

\* A name of generate_article_workflow or main2 that is not bound yet, a file not written yet.
Unbound == [unbound |-> TRUE]

\* generate_article_workflow has built its stores and invoked no agent yet.
WorkflowInit ==
    /\ pc = "start"
    /\ body_items = <<>>
    /\ body_i = 0
    /\ bookend_i = 0
    /\ section_result = Unbound
    /\ section_result_at = 0
    /\ trace = <<>>
    /\ article = Unbound
    /\ output_file = Unbound
    /\ tool_calls = 0
    /\ add_section_calls = <<>>

Init ==
    /\ StoresInit
    /\ ret = NoCall
    /\ exc = NoToolCall
    /\ WorkflowInit

Next ==
    \/ CallSetOutline
    \/ CallListOutlineItems
    \/ CallGetSectionPlan
    \/ CallGetContextSummary
    \/ CallAddSection
    \/ CallModifySection
    \/ CallGetSection
    \/ CallTotalWordCount
    \/ CallToMarkdown
    \/ CallSetKeywords
    \/ CallGetKeywords
    \/ CallSetTitle
    \/ CallGetTitle

Spec == Init /\ [][Next]_vars

\* ------------------------------------------------ claims checked under Spec

\* The positions at which a section with this index is stored.
PositionsOf(section_index) == {k \in DOMAIN sections : sections[k].section_index = section_index}

\* C1: add_section(S) for an S whose section_index is already stored raises no
\* error and leaves the stored sections (count, order, every field) unchanged, and
\* after any add_section(S) exactly one stored section has S's index.
C1_AddSectionIdempotent ==
    /\ [][(ret'.op = "add_section" /\ ret'.arg.section_index \in Indices(sections))
             => (sections' = sections /\ ret'.err = "none")]_vars
    /\ [](ret.op = "add_section" => Cardinality(PositionsOf(ret.arg.section_index)) = 1)

\* A second add_section for a stored index, with a section that differs from the stored one.
C1_Witness ==
    /\ ret.op = "add_section"
    /\ ret.log # ""
    /\ \E k \in DOMAIN sections :
          /\ sections[k].section_index = ret.arg.section_index
          /\ sections[k].heading # ret.arg.heading
          /\ sections[k].summary # ret.arg.summary

\* C2: no two stored sections have the same section_index, after any sequence of
\* StructureManager calls from the empty state.
C2_SectionIndexUnique ==
    \A i, j \in DOMAIN sections :
        i # j => sections[i].section_index # sections[j].section_index

\* Two sections are stored and an add_section for a stored index has just been refused.
C2_Witness ==
    /\ Len(sections) >= 2
    /\ ret.op = "add_section"
    /\ ret.log # ""

\* The place of a stored section among the stored sections by ascending index.
RankOf(k) ==
    1 + Cardinality({j \in DOMAIN sections :
                        sections[j].section_index < sections[k].section_index})

\* C3: to_markdown() renders the stored sections in strictly ascending
\* section_index order, whatever the order they were inserted in: the block of
\* a section comes after the blocks of exactly the sections with a smaller index.
C3_MarkdownAscending ==
    ret.op = "to_markdown" =>
        /\ Len(ret.val.blocks) = Max(2 * Len(sections) - 1, 0)
        /\ \A k \in DOMAIN sections :
              ret.val.blocks[2 * RankOf(k) - 1] = SectionBlock(sections[k])

\* to_markdown() was called while the sections were stored in descending index order.
C3_Witness ==
    /\ ret.op = "to_markdown"
    /\ Len(ret.arg) >= 2
    /\ ret.arg[1].section_index > ret.arg[2].section_index

\* C4: get_context_summary(k) holds no entry for a stored section whose
\* section_index is >= k, and get_context_summary(0) holds no entry at all.
C4_SummaryExcludesLater ==
    ret.op = "get_context_summary" =>
        /\ \A k \in DOMAIN sections :
              sections[k].section_index >= ret.arg =>
                  \A e \in DOMAIN ret.val.entries :
                      ret.val.entries[e] # SummaryEntry(sections[k])
        /\ (ret.arg = 0 => ret.val.entries = <<>>)

\* C5: get_context_summary(k) holds one entry for every stored section whose
\* section_index is strictly less than k, whatever the insertion order.
C5_SummaryIncludesEarlier ==
    ret.op = "get_context_summary" =>
        \A k \in DOMAIN sections :
            sections[k].section_index < ret.arg =>
                Cardinality({e \in DOMAIN ret.val.entries :
                                ret.val.entries[e] = SummaryEntry(sections[k])}) = 1

\* C11: modify_section(i, c) on a state holding a section with index i succeeds,
\* sets that section's contents to c and leaves its section_index, heading and
\* summary, every other section, the outline, the title and the keywords as they
\* were; this holds for every call, so a second modify_section(i, c2) leaves c2.
C11_ModifySectionFrame ==
    [][(ret'.op = "modify_section" /\ PositionsOf(ret'.arg[1]) # {}) =>
          /\ ret'.err = "none"
          /\ Len(sections') = Len(sections)
          /\ \A k \in DOMAIN sections :
                IF k \in PositionsOf(ret'.arg[1])
                THEN /\ sections'[k].contents = ret'.arg[2]
                     /\ sections'[k].section_index = sections[k].section_index
                     /\ sections'[k].heading = sections[k].heading
                     /\ sections'[k].summary = sections[k].summary
                ELSE sections'[k] = sections[k]
          /\ UNCHANGED <<outline, title, keywords>>]_vars

\* A section added with the contents of SectionA now holds the contents a
\* modify_section call gave it, next to another section.
C11_Witness ==
    /\ ret.op = "modify_section"
    /\ ret.err = "none"
    /\ Len(sections) = 2
    /\ \E k \in DOMAIN sections :
          /\ sections[k] = [SectionA(ret.arg[1]) EXCEPT !.contents = ContentsB]
          /\ ret.arg[2] = ContentsB

\* C12: get_section(i) and modify_section(i, c) called when no stored section
\* has index i fail with the not-found error and leave the StructureManager as
\* it was; get_section(i) called when such a section exists returns it.
C12_SectionNotFound ==
    [][(ret'.op \in {"get_section", "modify_section"}) =>
          LET i == IF ret'.op = "get_section" THEN ret'.arg ELSE ret'.arg[1]
          IN /\ PositionsOf(i) = {} => (ret'.err = "ValueError" /\ UNCHANGED smVars)
             /\ (ret'.op = "get_section" /\ PositionsOf(i) # {}) =>
                   /\ ret'.err = "none"
                   /\ \E k \in PositionsOf(i) : ret'.val = sections[k]
                   /\ UNCHANGED smVars]_vars

\* get_section failed for an index that is absent from a non-empty document.
C12_Witness ==
    /\ ret.op = "get_section"
    /\ ret.err = "ValueError"
    /\ sections # <<>>
    /\ PositionsOf(ret.arg) = {}

\* C13: get_section_plan(i) fails with IndexError for every i outside
\* 0..len(outline)-1, negative i included, and returns the i-th outline item for
\* every i inside these bounds.
C13_SectionPlanBounds ==
    ret.op = "get_section_plan" =>
        IF ret.arg \in 0..(Len(outline) - 1)
        THEN ret.err = "none" /\ ret.val = outline[ret.arg + 1]
        ELSE ret.err = "IndexError"

\* C24: the to_markdown() output is "# {title}", a blank line, "Keywords: " and
\* the keywords joined by ", ", a blank line, then one block "## {heading}", blank
\* line, "{contents}" per stored section, consecutive blocks separated by one
\* blank line; every stored section has exactly one block and every block is
\* the block of a stored section.
C24_MarkdownShape ==
    ret.op = "to_markdown" =>
        LET md == ret.val
            n == Len(sections)
            m == Len(keywords)
        IN /\ md.title_line = <<"# ", title, "\n\n">>
           /\ Len(md.keywords_line) = 2 + Max(2 * m - 1, 0)
           /\ md.keywords_line[1] = "Keywords: "
           /\ md.keywords_line[Len(md.keywords_line)] = "\n\n"
           /\ \A k \in 1..m : md.keywords_line[2 * k] = keywords[k]
           /\ \A k \in 1..(m - 1) : md.keywords_line[2 * k + 1] = ", "
           /\ Len(md.blocks) = Max(2 * n - 1, 0)
           /\ \A b \in 1..(n - 1) : md.blocks[2 * b] = "\n\n"
           /\ \A b \in 1..n :
                 /\ md.blocks[2 * b - 1].mark = "## "
                 /\ md.blocks[2 * b - 1].gap = "\n\n"
                 /\ \E k \in DOMAIN sections :
                       /\ md.blocks[2 * b - 1].heading = sections[k].heading
                       /\ md.blocks[2 * b - 1].body = sections[k].contents
           /\ \A k \in DOMAIN sections :
                 Cardinality({b \in 1..n : /\ md.blocks[2 * b - 1].heading = sections[k].heading
                                           /\ md.blocks[2 * b - 1].body = sections[k].contents}) = 1

\* to_markdown() rendered a document with a title, two keywords and two sections.
C24_Witness ==
    /\ ret.op = "to_markdown"
    /\ title = "T2"
    /\ Len(keywords) = 2
    /\ Len(sections) = 2
    /\ Len(ret.val.blocks) = 3

RECURSIVE WordsUpTo(_)
\* The words of the first n stored sections, each counted from its current contents.
WordsUpTo(n) == IF n = 0 THEN 0 ELSE WordsUpTo(n - 1) + word_count(sections[n].contents)

\* C25: total_word_count() equals the sum over the currently stored sections of
\* each section's word_count computed from its current contents.
C25_TotalWordCount ==
    ret.op = "total_word_count" => ret.val = WordsUpTo(Len(sections))

\* total_word_count() answered 8 for two sections whose contents modify_section
\* had replaced by the four-word contents, one of them added as SectionA.
C25_Witness ==
    /\ ret.op = "total_word_count"
    /\ Len(sections) = 2
    /\ \E k \in DOMAIN sections :
          sections[k] = [SectionA(sections[k].section_index) EXCEPT !.contents = ContentsB]
    /\ word_count(ContentsB) = 4
    /\ ret.val = 8

\* C28: to_markdown() changes nothing but the order of the sections: the stored
\* sections with all their fields, the guard set of indices, the outline, the
\* title and the keywords are the same before and after the call, and a second
\* to_markdown() with no operation in between returns what the first returned.
C28_ToMarkdownFrame ==
    [][ret'.op = "to_markdown" =>
          /\ Len(sections') = Len(sections)
          /\ \A s \in SectionInputs \cup {sections[k] : k \in DOMAIN sections} :
                Cardinality({k \in DOMAIN sections' : sections'[k] = s})
                    = Cardinality({k \in DOMAIN sections : sections[k] = s})
          /\ UNCHANGED <<existed_section_idxs, outline, title, keywords>>
          /\ ret.op = "to_markdown" => ret'.val = ret.val]_vars

\* to_markdown() has reordered two sections that were stored in descending order.
C28_Witness ==
    /\ ret.op = "to_markdown"
    /\ Len(ret.arg) = 2
    /\ ret.arg[1].section_index > ret.arg[2].section_index
    /\ sections = <<ret.arg[2], ret.arg[1]>>
    /\ existed_section_idxs = {0, 1}

\* C30: stored sections are never removed and never change index, heading or
\* summary: every step keeps, for each stored section, one section of the same
\* index, heading and summary, and its contents differ only after modify_section.
C30_SectionsPersist ==
    [][/\ Indices(sections) \subseteq Indices(sections')
       /\ \A k \in DOMAIN sections :
             \E j \in DOMAIN sections' :
                 /\ sections'[j].section_index = sections[k].section_index
                 /\ sections'[j].heading = sections[k].heading
                 /\ sections'[j].summary = sections[k].summary
                 /\ sections'[j].contents # sections[k].contents => ret'.op = "modify_section"]_vars

\* Both indices are stored, and an add_section for a stored index, with another
\* heading, has left the stored section as it was.
C30_Witness ==
    /\ ret.op = "add_section"
    /\ Len(sections) = 2
    /\ sections[1].section_index < sections[2].section_index
    /\ ret.arg.section_index = sections[1].section_index
    /\ ret.arg.heading # sections[1].heading

\* ----------------------- SpecTools: any caller of the tool functions, any context

\* Concepts added through the tool in one run of SpecTools.
MaxConcepts == 1

NoneDeps == Deps("NoneType", "absent", "absent", "absent")
ScriberDepsOf(sm, sty, kb) == Deps("ScriberDeps", sm, sty, kb)
ArchitectDepsOf(sm) == Deps("ArchitectDeps", sm, "absent", "absent")

\* The contexts a tool function may be handed: the three stores bound as the
\* workflow binds them; no deps at all; deps without the style and knowledge
\* attributes; attributes bound to None; attributes bound to another store; and
\* a store passed as the deps itself.
DepsInputs ==
    { ScriberDepsOf("StructureManager", "StyleManager", "KnowledgeBase"),
      NoneDeps,
      ArchitectDepsOf("StructureManager"),
      ScriberDepsOf("NoneType", "NoneType", "NoneType"),
      ScriberDepsOf("KnowledgeBase", "StructureManager", "StyleManager"),
      Deps("StructureManager", "absent", "absent", "absent"),
      Deps("StyleManager", "absent", "absent", "absent"),
      Deps("KnowledgeBase", "absent", "absent", "absent") }

\* get_tools(attr_name): None, or the name the agents configure.
SMAttrNames == {"", "structure_manager"}
StyleAttrNames == {"", "style_manager"}
KBAttrNames == {"", "knowledge_base"}

ToolSectionInputs == {SectionA(0)}
ToolOutlineInputs == {OutlineOfLen(2)}
ToolTitleInputs == {"T1"}
ToolContentInputs == {ContentsB}
ToolStyleInputs == {StyleGuide("Simplified Chinese", "informal", "passive", "experts", "markdown")}
ToolConceptInputs == {ConceptInfo("AI", "def", "rel")}

notTools == <<ret, wfVars>>

ToolSetOutline ==
    \E deps \in DepsInputs, a \in SMAttrNames, o \in ToolOutlineInputs :
        /\ set_outline_tool(deps, a, o)
        /\ exc' = ToolCalled("StructureManager_set_outline", deps, a, set_outline_tool_raises(deps, a, o))
        /\ UNCHANGED notTools

ToolListOutlineItems ==
    \E deps \in DepsInputs, a \in SMAttrNames :
        /\ list_outline_items_tool(deps, a)
        /\ exc' = ToolCalled("StructureManager_list_outline_items", deps, a, list_outline_items_tool_raises(deps, a))
        /\ UNCHANGED notTools

ToolGetSectionPlan ==
    \E deps \in DepsInputs, a \in SMAttrNames, i \in {0, 1} :
        /\ get_section_plan_tool(deps, a, i)
        /\ exc' = ToolCalled("StructureManager_get_section_plan", deps, a, get_section_plan_tool_raises(deps, a, i))
        /\ UNCHANGED notTools

ToolGetContextSummary ==
    \E deps \in DepsInputs, a \in SMAttrNames, i \in {0, 1} :
        /\ get_context_summary_tool(deps, a, i)
        /\ exc' = ToolCalled("StructureManager_get_context_summary", deps, a, get_context_summary_tool_raises(deps, a, i))
        /\ UNCHANGED notTools

ToolAddSection ==
    \E deps \in DepsInputs, a \in SMAttrNames, sec \in ToolSectionInputs :
        /\ add_section_tool(deps, a, sec)
        /\ exc' = ToolCalled("StructureManager_add_section", deps, a, add_section_tool_raises(deps, a, sec))
        /\ UNCHANGED notTools

ToolModifySection ==
    \E deps \in DepsInputs, a \in SMAttrNames, i \in {0, 1}, c \in ToolContentInputs :
        /\ modify_section_tool(deps, a, i, c)
        /\ exc' = ToolCalled("StructureManager_modify_section", deps, a, modify_section_tool_raises(deps, a, i, c))
        /\ UNCHANGED notTools

ToolGetSection ==
    \E deps \in DepsInputs, a \in SMAttrNames, i \in {0, 1} :
        /\ get_section_tool(deps, a, i)
        /\ exc' = ToolCalled("StructureManager_get_section", deps, a, get_section_tool_raises(deps, a, i))
        /\ UNCHANGED notTools

ToolSetTitle ==
    \E deps \in DepsInputs, a \in SMAttrNames, t \in ToolTitleInputs :
        /\ set_title_tool(deps, a, t)
        /\ exc' = ToolCalled("StructureManager_set_title", deps, a, set_title_tool_raises(deps, a, t))
        /\ UNCHANGED notTools

ToolGetTitle ==
    \E deps \in DepsInputs, a \in SMAttrNames :
        /\ get_title_tool(deps, a)
        /\ exc' = ToolCalled("StructureManager_get_title", deps, a, get_title_tool_raises(deps, a))
        /\ UNCHANGED notTools

ToolSetKeywords ==
    \E deps \in DepsInputs, a \in SMAttrNames, kws \in KeywordInputs :
        /\ set_keywords_tool(deps, a, kws)
        /\ exc' = ToolCalled("StructureManager_set_keywords", deps, a, set_keywords_tool_raises(deps, a, kws))
        /\ UNCHANGED notTools

ToolGetKeywords ==
    \E deps \in DepsInputs, a \in SMAttrNames :
        /\ get_keywords_tool(deps, a)
        /\ exc' = ToolCalled("StructureManager_get_keywords", deps, a, get_keywords_tool_raises(deps, a))
        /\ UNCHANGED notTools

ToolAddConcept ==
    \E deps \in DepsInputs, a \in KBAttrNames, c \in ToolConceptInputs :
        /\ Len(concepts) < MaxConcepts
        /\ add_concept_tool(deps, a, c)
        /\ exc' = ToolCalled("KnowledgeBase_add_concept", deps, a, add_concept_tool_raises(deps, a, c))
        /\ UNCHANGED notTools

ToolGetConcept ==
    \E deps \in DepsInputs, a \in KBAttrNames, n \in {"AI", "ML"} :
        /\ get_concept_tool(deps, a, n)
        /\ exc' = ToolCalled("KnowledgeBase_get_concept", deps, a, get_concept_tool_raises(deps, a, n))
        /\ UNCHANGED notTools

ToolListConcepts ==
    \E deps \in DepsInputs, a \in KBAttrNames :
        /\ list_concepts_tool(deps, a)
        /\ exc' = ToolCalled("KnowledgeBase_list_concepts", deps, a, list_concepts_tool_raises(deps, a))
        /\ UNCHANGED notTools

ToolSetStyleGuide ==
    \E deps \in DepsInputs, a \in StyleAttrNames, sg \in ToolStyleInputs :
        /\ set_style_guide_tool(deps, a, sg)
        /\ exc' = ToolCalled("set_style_guide", deps, a, set_style_guide_tool_raises(deps, a, sg))
        /\ UNCHANGED notTools

ToolGetStyleGuide ==
    \E deps \in DepsInputs, a \in StyleAttrNames :
        /\ get_style_guide_tool(deps, a)
        /\ exc' = ToolCalled("get_style_guide", deps, a, get_style_guide_tool_raises(deps, a))
        /\ UNCHANGED notTools

NextTools ==
    \/ ToolSetOutline
    \/ ToolListOutlineItems
    \/ ToolGetSectionPlan
    \/ ToolGetContextSummary
    \/ ToolAddSection
    \/ ToolModifySection
    \/ ToolGetSection
    \/ ToolSetTitle
    \/ ToolGetTitle
    \/ ToolSetKeywords
    \/ ToolGetKeywords
    \/ ToolAddConcept
    \/ ToolGetConcept
    \/ ToolListConcepts
    \/ ToolSetStyleGuide
    \/ ToolGetStyleGuide

SpecTools == Init /\ [][NextTools]_vars

\* The store type a tool is bound to.
ToolStore(tool) ==
    CASE tool \in {"KnowledgeBase_add_concept", "KnowledgeBase_get_concept",
                   "KnowledgeBase_list_concepts"} -> "KnowledgeBase"
      [] tool \in {"set_style_guide", "get_style_guide"} -> "StyleManager"
      [] OTHER -> "StructureManager"

\* The dependency of a tool call is present and of the expected store type.
DependencyProvided(call) ==
    \/ call.attr_name = "" /\ call.deps.type = ToolStore(call.tool)
    \/ call.attr_name # "" /\ call.deps[call.attr_name] = ToolStore(call.tool)

\* C6: a tool function called with a context whose dependency is absent (deps is
\* None, deps lacks the configured attribute, the attribute is None) or not of
\* the expected store type raises the dependency-missing error and mutates no store.
C6_DependencyValidation ==
    [][(exc'.tool # "none" /\ ~DependencyProvided(exc'))
          => (exc'.raised = DependencyMissing /\ UNCHANGED storeVars)]_vars

\* ------------------------------------ SpecWF: one run of main2 and the workflow

\* The longest outline an architect returns, and one more than the largest
\* section_index an agent uses.
MaxOutline == 3
\* Store-changing tool calls (set, add, modify) the agents of one run make in all.
MaxToolCalls == 1

ArchitectOutputs == {OutlineOfLen(n) : n \in 0..MaxOutline}
StylistOutputs == {StyleGuide("Simplified Chinese", "formal", "active", "medical professionals", "")}
\* A scriber answers with a SectionInfo whose section_index it chose itself.
ScriberOutputs == {SectionA(i) : i \in 0..(MaxOutline - 1)}
ReviewerOutputs == {"review text", "another review text"}

\* What the model may pass to the tools it calls during a scriber or reviewer run.
AgentSectionInputs == {SectionB(i) : i \in 0..(MaxOutline - 1)}
AgentOutlineInputs == {<<OutlineItem("AltIntro", "purpose"), OutlineItem("AltConcl", "purpose")>>}
AgentIndexInputs == 0..(MaxOutline - 1)

\* ScriberDeps and ReviewerDeps as the workflow builds them.
WorkflowDeps == ScriberDepsOf("StructureManager", "StyleManager", "KnowledgeBase")

\* for special_item_idx in [0, -1]
SpecialItemIdxs == <<0, -1>>

Event(ev, agent, data) == [ev |-> ev, agent |-> agent, data |-> data]
Subject(item) == [title |-> item.title, purpose |-> item.purpose]

\* agent.run returns, or raises, when every tool call it started has returned.
NoToolCallRunning == add_section_calls = <<>>

RunPcs == {"architect_run", "stylist_run", "scriber_body_run", "scriber_bookend_run",
           "reviewer_run"}
ToolPcsEarly == {"architect_run", "stylist_run", "scriber_body_run", "scriber_bookend_run",
                 "reviewer_run"}

\* Only the scriber and the reviewer are built with store tools.
ToolPcs == {"scriber_body_run", "scriber_bookend_run", "reviewer_run"}

AgentAt(p) ==
    CASE p = "architect_run" -> "architect"
      [] p = "stylist_run" -> "stylist"
      [] p \in {"scriber_body_run", "scriber_bookend_run"} -> "scriber"
      [] p = "reviewer_run" -> "reviewer"
      [] OTHER -> "driver"

InvokeArchitect ==
    /\ pc = "start"
    /\ pc' = "architect_run"
    /\ trace' = Append(trace, Event("invoke", "architect", "topic"))
    /\ UNCHANGED <<storeVars, ret, exc, body_items, body_i, bookend_i, section_result, section_result_at,
                   article, output_file, tool_calls, add_section_calls>>

ArchitectReturn ==
    /\ pc = "architect_run"
    /\ \E o \in ArchitectOutputs :
          /\ set_outline(o)
          /\ trace' = Append(trace, Event("return", "architect", o))
    /\ pc' = "stylist_invoke"
    /\ UNCHANGED <<concepts, style_guide, ret, exc, body_items, body_i, bookend_i,
                   section_result, section_result_at, article, output_file, tool_calls, add_section_calls>>

InvokeStylistEarly ==
    /\ pc = "architect_run"
    /\ pc' = "stylist_run"
    /\ trace' = Append(trace, Event("invoke", "stylist", "topic"))
    /\ UNCHANGED <<storeVars, ret, exc, body_items, body_i, bookend_i, section_result, section_result_at,
                   article, output_file, tool_calls, add_section_calls>>

InvokeStylist ==
    /\ pc = "stylist_invoke"
    /\ pc' = "stylist_run"
    /\ trace' = Append(trace, Event("invoke", "stylist", "topic"))
    /\ UNCHANGED <<storeVars, ret, exc, body_items, body_i, bookend_i, section_result, section_result_at,
                   article, output_file, tool_calls, add_section_calls>>

StylistReturn ==
    /\ pc = "stylist_run"
    /\ \E sg \in StylistOutputs :
          /\ style_guide' = sg
          /\ trace' = Append(trace, Event("return", "stylist", sg))
    /\ body_items' = PySliceInner(outline, 1, -1)
    /\ body_i' = 0
    /\ pc' = "body_loop"
    /\ UNCHANGED <<smVars, concepts, ret, exc, bookend_i, section_result, section_result_at, article,
                   output_file, tool_calls, add_section_calls>>

InvokeScriberBody ==
    /\ pc = "body_loop"
    /\ body_i < Len(body_items)
    /\ pc' = "scriber_body_run"
    /\ trace' = Append(trace, Event("invoke", "scriber", Subject(body_items[body_i + 1])))
    /\ UNCHANGED <<storeVars, ret, exc, body_items, body_i, bookend_i, section_result, section_result_at,
                   article, output_file, tool_calls, add_section_calls>>

ScriberBodyReturn ==
    /\ pc = "scriber_body_run"
    /\ NoToolCallRunning
    /\ pc' = "body_add"
    /\ \E r \in ScriberOutputs :
          /\ section_result' = r
          /\ trace' = Append(trace, Event("return", "scriber", r))
    /\ section_result_at' = 0
    /\ UNCHANGED <<storeVars, ret, exc, body_items, body_i, bookend_i, article, output_file,
                   tool_calls, add_section_calls>>

DriverAddBody ==
    /\ pc = "body_add"
    /\ add_section(section_result)
    /\ trace' = Append(trace, Event("add_section", "driver", section_result))
    /\ section_result_at' = IF add_section_skips(section_result) THEN 0 ELSE Len(sections) + 1
    /\ body_i' = body_i + 1
    /\ pc' = "body_loop"
    /\ UNCHANGED <<concepts, style_guide, ret, exc, body_items, bookend_i, section_result,
                   article, output_file, tool_calls, add_section_calls>>

BodyDoneSpins ==
    /\ pc = "body_loop"
    /\ body_i >= Len(body_items)
    /\ UNCHANGED vars

BodyDone ==
    /\ pc = "body_loop"
    /\ body_i >= Len(body_items)
    /\ bookend_i' = 0
    /\ pc' = "bookend_loop"
    /\ UNCHANGED <<storeVars, ret, exc, body_items, body_i, section_result, section_result_at, trace, article,
                   output_file, tool_calls, add_section_calls>>

InvokeScriberBookend ==
    /\ pc = "bookend_loop"
    /\ bookend_i < Len(SpecialItemIdxs)
    /\ ~PyIndexRaises(outline, SpecialItemIdxs[bookend_i + 1])
    /\ pc' = "scriber_bookend_run"
    /\ trace' = Append(trace, Event("invoke", "scriber",
                                    Subject(PyIndex(outline, SpecialItemIdxs[bookend_i + 1]))))
    /\ UNCHANGED <<storeVars, ret, exc, body_items, body_i, bookend_i, section_result, section_result_at,
                   article, output_file, tool_calls, add_section_calls>>

\* outline_items[special_item_idx] on an empty outline: IndexError leaves the workflow.
BookendIndexError ==
    /\ pc = "bookend_loop"
    /\ bookend_i < Len(SpecialItemIdxs)
    /\ PyIndexRaises(outline, SpecialItemIdxs[bookend_i + 1])
    /\ pc' = "aborted"
    /\ trace' = Append(trace, Event("raised", "driver", "IndexError"))
    /\ UNCHANGED <<storeVars, ret, exc, body_items, body_i, bookend_i, section_result, section_result_at,
                   article, output_file, tool_calls, add_section_calls>>

ScriberBookendReturn ==
    /\ pc = "scriber_bookend_run"
    /\ NoToolCallRunning
    /\ pc' = "bookend_add"
    /\ \E r \in ScriberOutputs :
          /\ section_result' = r
          /\ trace' = Append(trace, Event("return", "scriber", r))
    /\ section_result_at' = 0
    /\ UNCHANGED <<storeVars, ret, exc, body_items, body_i, bookend_i, article, output_file,
                   tool_calls, add_section_calls>>

DriverAddBookend ==
    /\ pc = "bookend_add"
    /\ add_section(section_result)
    /\ trace' = Append(trace, Event("add_section", "driver", section_result))
    /\ section_result_at' = IF add_section_skips(section_result) THEN 0 ELSE Len(sections) + 1
    /\ bookend_i' = bookend_i + 1
    /\ pc' = "bookend_loop"
    /\ UNCHANGED <<concepts, style_guide, ret, exc, body_items, body_i, section_result,
                   article, output_file, tool_calls, add_section_calls>>

BookendsDoneBackToBody ==
    /\ pc = "bookend_loop"
    /\ bookend_i >= Len(SpecialItemIdxs)
    /\ pc' = "body_loop"
    /\ UNCHANGED <<storeVars, ret, exc, body_items, body_i, bookend_i, section_result, section_result_at, trace,
                   article, output_file, tool_calls, add_section_calls>>

BookendsDone ==
    /\ pc = "bookend_loop"
    /\ bookend_i >= Len(SpecialItemIdxs)
    /\ pc' = "review"
    /\ UNCHANGED <<storeVars, ret, exc, body_items, body_i, bookend_i, section_result, section_result_at, trace,
                   article, output_file, tool_calls, add_section_calls>>

InvokeReviewer ==
    /\ pc = "review"
    /\ pc' = "reviewer_run"
    /\ trace' = Append(trace, Event("invoke", "reviewer", "review"))
    /\ UNCHANGED <<storeVars, ret, exc, body_items, body_i, bookend_i, section_result, section_result_at,
                   article, output_file, tool_calls, add_section_calls>>

ReviewerReturnSetsTitle ==
    /\ pc = "reviewer_run"
    /\ NoToolCallRunning
    /\ \E text \in ReviewerOutputs :
          /\ trace' = Append(trace, Event("return", "reviewer", text))
          /\ set_title(text)
    /\ pc' = "assemble"
    /\ UNCHANGED <<concepts, style_guide, ret, exc, body_items, body_i, bookend_i,
                   section_result, section_result_at, article, output_file, tool_calls, add_section_calls>>

ReviewerReturn ==
    /\ pc = "reviewer_run"
    /\ NoToolCallRunning
    /\ \E text \in ReviewerOutputs :
          trace' = Append(trace, Event("return", "reviewer", text))
    /\ pc' = "assemble"
    /\ UNCHANGED <<storeVars, ret, exc, body_items, body_i, bookend_i, section_result, section_result_at,
                   article, output_file, tool_calls, add_section_calls>>

\* return structure_manager.to_markdown()
Assemble ==
    /\ pc = "assemble"
    /\ to_markdown
    /\ article' = to_markdown_value
    /\ trace' = Append(trace, Event("to_markdown", "driver", "none"))
    /\ pc' = "returned"
    /\ section_result_at' = IF section_result_at = 0 THEN 0
                                                     ELSE SortedPlace(sections, section_result_at)
    /\ UNCHANGED <<concepts, style_guide, ret, exc, body_items, body_i, bookend_i,
                   section_result, output_file, tool_calls, add_section_calls>>

\* main2: with open("output.md", "w") as f: f.write(article)
WriteOutput ==
    /\ pc = "returned"
    /\ output_file' = article
    /\ trace' = Append(trace, Event("write", "main2", "output.md"))
    /\ pc' = "written"
    /\ UNCHANGED <<storeVars, ret, exc, body_items, body_i, bookend_i, section_result, section_result_at,
                   article, tool_calls, add_section_calls>>

AgentRaisesSwallowed ==
    /\ pc \in RunPcs
    /\ pc' = "assemble"
    /\ trace' = Append(trace, Event("raised", AgentAt(pc), "UpstreamModelFailure"))
    /\ UNCHANGED <<storeVars, ret, exc, body_items, body_i, bookend_i, section_result, section_result_at,
                   article, output_file, tool_calls, add_section_calls>>

\* await agent.run(...) raises: nothing in the workflow or in main2 catches it.
AgentRaises ==
    /\ pc \in RunPcs
    /\ NoToolCallRunning
    /\ pc' = "aborted"
    /\ trace' = Append(trace, Event("raised", AgentAt(pc), "UpstreamModelFailure"))
    /\ UNCHANGED <<storeVars, ret, exc, body_items, body_i, bookend_i, section_result, section_result_at,
                   article, output_file, tool_calls, add_section_calls>>

\* The model calls a tool during its run: an exception of the tool function ends
\* the run as any other failure of the agent does.
\* add_section stores the object section_result.output itself, so the variable and the
\* stored element are one object: what modify_section assigns to the element shows in both.
SectionResultOutput(secs) ==
    IF section_result_at = 0 THEN section_result ELSE secs[section_result_at]

ToolOutcome(raised) ==
    /\ IF raised # "none"
       THEN /\ pc' = "aborted"
            /\ trace' = Append(trace, Event("raised", AgentAt(pc), raised))
       ELSE UNCHANGED <<pc, trace>>
    /\ section_result' = SectionResultOutput(sections')
    /\ UNCHANGED <<ret, exc, body_items, body_i, bookend_i, section_result_at, article,
                   output_file, add_section_calls>>

\* A call of a tool that changes a store.
DuringRun(raised) == tool_calls' = tool_calls + 1 /\ ToolOutcome(raised)

\* A call of a tool that only reads.
DuringRunQuery(raised) == UNCHANGED tool_calls /\ ToolOutcome(raised)

MayCallTool == pc \in ToolPcs /\ tool_calls < MaxToolCalls
MayQueryTool == pc \in ToolPcs

AgentSetOutline ==
    /\ MayCallTool
    /\ \E o \in AgentOutlineInputs :
          /\ set_outline_tool(WorkflowDeps, "structure_manager", o)
          /\ DuringRun(set_outline_tool_raises(WorkflowDeps, "structure_manager", o))

AgentListOutlineItems ==
    /\ MayQueryTool
    /\ list_outline_items_tool(WorkflowDeps, "structure_manager")
    /\ DuringRunQuery(list_outline_items_tool_raises(WorkflowDeps, "structure_manager"))

AgentGetSectionPlan ==
    /\ MayQueryTool
    /\ \E i \in AgentIndexInputs :
          /\ get_section_plan_tool(WorkflowDeps, "structure_manager", i)
          /\ DuringRunQuery(get_section_plan_tool_raises(WorkflowDeps, "structure_manager", i))

AgentGetContextSummary ==
    /\ MayQueryTool
    /\ \E i \in AgentIndexInputs :
          /\ get_context_summary_tool(WorkflowDeps, "structure_manager", i)
          /\ DuringRunQuery(get_context_summary_tool_raises(WorkflowDeps, "structure_manager", i))

AgentAddSection ==
    /\ MayCallTool
    /\ \E sec \in AgentSectionInputs :
          /\ add_section_tool(WorkflowDeps, "structure_manager", sec)
          /\ DuringRun(add_section_tool_raises(WorkflowDeps, "structure_manager", sec))

AgentModifySection ==
    /\ MayCallTool
    /\ \E i \in AgentIndexInputs, c \in ToolContentInputs :
          /\ modify_section_tool(WorkflowDeps, "structure_manager", i, c)
          /\ DuringRun(modify_section_tool_raises(WorkflowDeps, "structure_manager", i, c))

AgentGetSection ==
    /\ MayQueryTool
    /\ \E i \in AgentIndexInputs :
          /\ get_section_tool(WorkflowDeps, "structure_manager", i)
          /\ DuringRunQuery(get_section_tool_raises(WorkflowDeps, "structure_manager", i))

AgentSetTitle ==
    /\ MayCallTool
    /\ \E t \in ToolTitleInputs :
          /\ set_title_tool(WorkflowDeps, "structure_manager", t)
          /\ DuringRun(set_title_tool_raises(WorkflowDeps, "structure_manager", t))

AgentGetTitle ==
    /\ MayQueryTool
    /\ get_title_tool(WorkflowDeps, "structure_manager")
    /\ DuringRunQuery(get_title_tool_raises(WorkflowDeps, "structure_manager"))

AgentSetKeywords ==
    /\ MayCallTool
    /\ \E kws \in KeywordInputs :
          /\ set_keywords_tool(WorkflowDeps, "structure_manager", kws)
          /\ DuringRun(set_keywords_tool_raises(WorkflowDeps, "structure_manager", kws))

AgentGetKeywords ==
    /\ MayQueryTool
    /\ get_keywords_tool(WorkflowDeps, "structure_manager")
    /\ DuringRunQuery(get_keywords_tool_raises(WorkflowDeps, "structure_manager"))

AgentAddConcept ==
    /\ MayCallTool
    /\ Len(concepts) < MaxConcepts
    /\ \E c \in ToolConceptInputs :
          /\ add_concept_tool(WorkflowDeps, "knowledge_base", c)
          /\ DuringRun(add_concept_tool_raises(WorkflowDeps, "knowledge_base", c))

AgentGetConcept ==
    /\ MayQueryTool
    /\ \E n \in {"AI", "ML"} :
          /\ get_concept_tool(WorkflowDeps, "knowledge_base", n)
          /\ DuringRunQuery(get_concept_tool_raises(WorkflowDeps, "knowledge_base", n))

AgentListConcepts ==
    /\ MayQueryTool
    /\ list_concepts_tool(WorkflowDeps, "knowledge_base")
    /\ DuringRunQuery(list_concepts_tool_raises(WorkflowDeps, "knowledge_base"))

AgentSetStyleGuide ==
    /\ MayCallTool
    /\ \E sg \in ToolStyleInputs :
          /\ set_style_guide_tool(WorkflowDeps, "style_manager", sg)
          /\ DuringRun(set_style_guide_tool_raises(WorkflowDeps, "style_manager", sg))

AgentGetStyleGuide ==
    /\ MayQueryTool
    /\ get_style_guide_tool(WorkflowDeps, "style_manager")
    /\ DuringRunQuery(get_style_guide_tool_raises(WorkflowDeps, "style_manager"))

NextWF ==
    \/ InvokeArchitect
    \/ ArchitectReturn
    \/ InvokeStylist
    \/ StylistReturn
    \/ InvokeScriberBody
    \/ ScriberBodyReturn
    \/ DriverAddBody
    \/ BodyDone
    \/ InvokeScriberBookend
    \/ BookendIndexError
    \/ ScriberBookendReturn
    \/ DriverAddBookend
    \/ BookendsDone
    \/ InvokeReviewer
    \/ ReviewerReturn
    \/ Assemble
    \/ WriteOutput
    \/ AgentRaises
    \/ AgentSetOutline
    \/ AgentListOutlineItems
    \/ AgentGetSectionPlan
    \/ AgentGetContextSummary
    \/ AgentAddSection
    \/ AgentModifySection
    \/ AgentGetSection
    \/ AgentSetTitle
    \/ AgentGetTitle
    \/ AgentSetKeywords
    \/ AgentGetKeywords
    \/ AgentAddConcept
    \/ AgentGetConcept
    \/ AgentListConcepts
    \/ AgentSetStyleGuide
    \/ AgentGetStyleGuide

SpecWF == Init /\ [][NextWF]_vars

\* ---------------------------------------------- claims checked under SpecWF

\* The stage of the workflow a position belongs to: Outline, Style, Body,
\* Bookends, Review, Assemble are 1..6; 7 is main2 after the workflow returned.
StageOf(p) ==
    CASE p \in {"start", "architect_run"} -> 1
      [] p \in {"stylist_invoke", "stylist_run"} -> 2
      [] p \in {"body_loop", "scriber_body_run", "body_add"} -> 3
      [] p \in {"bookend_loop", "scriber_bookend_run", "bookend_add"} -> 4
      [] p \in {"review", "reviewer_run"} -> 5
      [] p = "assemble" -> 6
      [] p \in {"returned", "written"} -> 7
      [] OTHER -> 0

\* Where a stage ends when it succeeds: its agent has returned, its loop is exhausted.
StageEnds == {"architect_run", "stylist_run", "body_loop", "bookend_loop", "reviewer_run",
              "assemble"}

\* C7: the driver passes through Outline, Style, Body, Bookends, Review, Assemble
\* in this order: a step stays in its stage, or moves to the next stage from a
\* position where the stage has completed, or aborts the run; no stage is
\* re-entered and an aborted run stays aborted.
C7_StagesInOrder ==
    [][pc' # pc =>
          \/ pc' = "aborted"
          \/ StageOf(pc') = StageOf(pc)
          \/ StageOf(pc') = StageOf(pc) + 1 /\ pc \in StageEnds]_vars

\* A run that went through every stage, with a body section, and wrote its file.
C7_Witness == pc = "written" /\ Len(body_items) >= 1 /\ output_file = article

IsScriberInvoke(e) == e.ev = "invoke" /\ e.agent = "scriber"
IsArchitectReturn(e) == e.ev = "return" /\ e.agent = "architect"

\* The outline items the scriber was invoked for, in order.
ScriberSubjects ==
    LET invokes == SelectSeq(trace, IsScriberInvoke)
    IN [k \in DOMAIN invokes |-> invokes[k].data]

ArchitectReturned == SelectSeq(trace, IsArchitectReturn) # <<>>
ArchitectOutline == SelectSeq(trace, IsArchitectReturn)[1].data

\* Items 1..n-2, then item 0, then item n-1 of an outline of n >= 2 items.
ScriberOrder(o) ==
    LET n == Len(o)
    IN [k \in 1..n |-> Subject(IF k <= n - 2 THEN o[k + 1] ELSE IF k = n - 1 THEN o[1] ELSE o[n])]

IsPrefixOf(a, b) == Len(a) <= Len(b) /\ SubSeq(b, 1, Len(a)) = a

\* C8: for an outline of n >= 2 items the scriber is invoked for items 1..n-2 in
\* ascending order, each once, then for item 0, then for item n-1, and after each
\* scriber invocation that returns the driver calls add_section with its result
\* before anything else happens.
C8_ScriberOrder ==
    (ArchitectReturned /\ Len(ArchitectOutline) >= 2) =>
        /\ IsPrefixOf(ScriberSubjects, ScriberOrder(ArchitectOutline))
        /\ (StageOf(pc) >= 5 => ScriberSubjects = ScriberOrder(ArchitectOutline))
        /\ \A i \in DOMAIN trace :
              (trace[i].ev = "return" /\ trace[i].agent = "scriber" /\ i < Len(trace)) =>
                  /\ trace[i + 1].ev = "add_section"
                  /\ trace[i + 1].data = trace[i].data

\* C9: when the Body and Bookends stages have completed for an outline of n
\* items, the StructureManager holds exactly n sections, one for each index
\* 0..n-1 (stated for n >= 2 and for runs whose agents changed no store through
\* a tool, where every section comes from the driver's add_section).
C9_AllSectionsOnce ==
    (pc = "review" /\ Len(ArchitectOutline) >= 2 /\ tool_calls = 0) =>
        /\ Len(sections) = Len(ArchitectOutline)
        /\ Indices(sections) = 0..(Len(ArchitectOutline) - 1)

\* C10: when an agent invocation raises, the run ends there: nothing follows the
\* failure (no agent is invoked, none is retried, to_markdown is not called), no
\* document is returned and no output file is written.
C10_AbortOnFailure ==
    \A i \in DOMAIN trace :
        trace[i].ev = "raised" =>
            /\ i = Len(trace)
            /\ pc = "aborted"
            /\ article = Unbound
            /\ output_file = Unbound

\* A scriber run failed after a section had been stored: the run is over, with no document.
C10_Witness ==
    /\ pc = "aborted"
    /\ trace # <<>>
    /\ trace[Len(trace)].ev = "raised"
    /\ trace[Len(trace)].agent = "scriber"
    /\ trace[Len(trace)].data = "UpstreamModelFailure"
    /\ Len(sections) >= 1

\* ------------------------------- SpecTypes: the derived attributes of types.py

\* The longest contents, in characters, of the sections whose words are counted.
MaxLen == 5

HelloWorld == <<"h", "e", "l", "l", "o", " ", "w", "o", "r", "l", "d">>
LatinLetters == {"h", "e", "l", "o", "w", "r", "d"}

\* Contents of a SectionInfo: "hello world", and every text of up to MaxLen
\* characters over a Latin letter, a CJK ideograph, a space and an
\* ideographic space (U+3000).
WordCountInputs ==
    {HelloWorld} \cup UNION {[1..n -> {"h", "u4e2d", " ", "u3000"}] : n \in 0..MaxLen}

\* A SectionInfo has been constructed; nothing else has happened.
InitTypes ==
    /\ StoresInit
    /\ ret = NoCall
    /\ exc = NoToolCall
    /\ pc = "start"
    /\ body_items = <<>>
    /\ body_i = 0
    /\ bookend_i = 0
    /\ section_result \in {SectionInfo(0, "H0", c, "sumA") : c \in WordCountInputs}
    /\ section_result_at = 0
    /\ trace = <<>>
    /\ article = Unbound
    /\ output_file = Unbound
    /\ tool_calls = 0
    /\ add_section_calls = <<>>

\* section.word_count
ReadWordCount ==
    /\ ret' = Returned("word_count", section_result.contents,
                       word_count(section_result.contents))
    /\ UNCHANGED <<storeVars, exc, wfVars>>

NextTypes == ReadWordCount

SpecTypes == InitTypes /\ [][NextTypes]_vars

CJKCount(contents) == Cardinality({i \in DOMAIN contents : contents[i] \in CJK})

\* The number of maximal runs of Latin letters.
LatinWordCount(contents) ==
    Cardinality({i \in DOMAIN contents :
                   /\ contents[i] \in LatinLetters
                   /\ (i = 1 \/ contents[i - 1] \notin LatinLetters)})

\* C14: the word_count of contents "hello world" is 2, and the word_count of any
\* contents with exactly 3 CJK ideographs and 1 Latin word is 4, wherever the
\* whitespace stands between them.
C14_WordCountExamples ==
    ret.op = "word_count" =>
        /\ ret.arg = HelloWorld => ret.val = 2
        /\ (CJKCount(ret.arg) = 3 /\ LatinWordCount(ret.arg) = 1) => ret.val = 4

\* -------------- SpecStores: any caller of the KnowledgeBase and StyleManager API

\* Calls of add_concept and set_style_guide in one run of SpecStores.
MaxStoreCalls == 3

ConceptInputs == {ConceptInfo(n, d, "high") : n \in {"AI", "ML"}, d \in {"d1", "d2"}}
ConceptNames == {"AI", "ML"}

\* Two guides that differ in every field, and one that differs from the first in its tone only.
GuideA == StyleGuide("Simplified Chinese", "casual", "passive", "experts", "markdown")
GuideB == StyleGuide("French", "formal", "active", "students", "plain")
GuideC == [GuideA EXCEPT !.tone = "formal"]
StyleInputs == {GuideA, GuideB, GuideC}

\* What a direct call of a KnowledgeBase or StyleManager method leaves alone.
notStores == <<smVars, exc, pc, body_items, body_i, bookend_i, section_result, section_result_at, article,
               output_file, tool_calls, add_section_calls>>

CallAddConcept ==
    /\ Len(trace) < MaxStoreCalls
    /\ \E c \in ConceptInputs :
          /\ add_concept(c)
          /\ trace' = Append(trace, Event("add_concept", "caller", c))
          /\ ret' = Returned("add_concept", c, "None")
    /\ UNCHANGED <<style_guide, notStores>>

CallGetConcept ==
    /\ \E n \in ConceptNames : ret' = Returned("get_concept", n, get_concept(n))
    /\ UNCHANGED <<concepts, style_guide, trace, notStores>>

CallListConcepts ==
    /\ ret' = Returned("list_concepts", "none", list_concepts)
    /\ UNCHANGED <<concepts, style_guide, trace, notStores>>

CallSetStyleGuide ==
    /\ Len(trace) < MaxStoreCalls
    /\ \E sg \in StyleInputs :
          /\ set_style_guide(sg)
          /\ trace' = Append(trace, Event("set_style_guide", "caller", sg))
          /\ ret' = Returned("set_style_guide", sg, "None")
    /\ UNCHANGED <<concepts, notStores>>

CallGetStyleGuide ==
    /\ ret' = Returned("get_style_guide", "none", get_style_guide)
    /\ UNCHANGED <<concepts, style_guide, trace, notStores>>

CallStyleGuideToPrompt ==
    /\ ret' = Returned("style_guide_to_prompt", "none", style_guide_to_prompt)
    /\ UNCHANGED <<concepts, style_guide, trace, notStores>>

NextStores ==
    \/ CallStyleGuideToPrompt
    \/ CallAddConcept
    \/ CallGetConcept
    \/ CallListConcepts
    \/ CallSetStyleGuide
    \/ CallGetStyleGuide

SpecStores == Init /\ [][NextStores]_vars

\* -------------------------------------------- claims checked under SpecStores

IsAddConcept(e) == e.ev = "add_concept"
IsSetStyleGuide(e) == e.ev = "set_style_guide"

\* The concepts passed to add_concept so far, in call order.
AddedConcepts ==
    LET adds == SelectSeq(trace, IsAddConcept)
    IN [k \in DOMAIN adds |-> adds[k].data]

\* The guides passed to set_style_guide so far, in call order.
SetGuides ==
    LET sets == SelectSeq(trace, IsSetStyleGuide)
    IN [k \in DOMAIN sets |-> sets[k].data]

\* The calls of add_concept, by position, that passed a concept of this name.
AddedWithName(name) == {k \in DOMAIN AddedConcepts : AddedConcepts[k].name = name}

\* C15: get_concept(name) returns the first-inserted concept of that name, and
\* returns None without raising when no concept has that name; the call leaves
\* the KnowledgeBase, and every other store, unchanged.
C15_GetConceptFirstMatch ==
    [][ret'.op = "get_concept" =>
          /\ ret'.err = "none"
          /\ UNCHANGED storeVars
          /\ IF AddedWithName(ret'.arg) = {}
             THEN ret'.val = "None"
             ELSE \E k \in AddedWithName(ret'.arg) :
                     /\ \A j \in AddedWithName(ret'.arg) : k <= j
                     /\ ret'.val = AddedConcepts[k]]_vars

\* Two concepts of one name with different definitions are stored, and
\* get_concept has answered with the one inserted first.
C15_Witness ==
    /\ ret.op = "get_concept"
    /\ Len(concepts) >= 2
    /\ concepts[1].name = ret.arg
    /\ concepts[2].name = ret.arg
    /\ concepts[1].definition # concepts[2].definition
    /\ ret.val = concepts[1]

\* C17: add_concept is an unconditional append: after m calls the store holds
\* exactly the m concepts passed, duplicates of a name included, in call order,
\* and list_concepts() returns their m names in that order.
C17_AddConceptAppends ==
    /\ concepts = AddedConcepts
    /\ ret.op = "list_concepts" =>
          /\ Len(ret.val) = Len(AddedConcepts)
          /\ \A k \in DOMAIN AddedConcepts : ret.val[k] = AddedConcepts[k].name

\* Three add_concept calls, two of them with the same name: list_concepts names all three.
C17_Witness ==
    /\ ret.op = "list_concepts"
    /\ ret.val = <<"AI", "ML", "AI">>
    /\ Len(concepts) = 3

\* C18: set_style_guide(G1) followed by set_style_guide(G2) makes
\* get_style_guide() return G2 in every field: the guide held and returned is
\* always the one passed to the latest set_style_guide call, whole.
C18_StyleGuideReplaced ==
    LET latest == IF SetGuides = <<>> THEN DefaultStyleGuide ELSE SetGuides[Len(SetGuides)]
    IN /\ \A f \in DOMAIN latest : style_guide[f] = latest[f]
       /\ ret.op = "get_style_guide" =>
             (DOMAIN ret.val = DOMAIN latest /\ \A f \in DOMAIN latest : ret.val[f] = latest[f])

\* GuideA, then GuideB which differs from it in every field, were set, and
\* get_style_guide answered GuideB.
C18_Witness ==
    /\ ret.op = "get_style_guide"
    /\ Len(SetGuides) >= 2
    /\ SetGuides[Len(SetGuides) - 1] = GuideA
    /\ SetGuides[Len(SetGuides)] = GuideB
    /\ ret.val = GuideB
    /\ \A f \in DOMAIN GuideA : ret.val[f] # GuideA[f]

\* --------------------------------------- further claims checked under SpecTools

\* C16: a lookup of a concept by a name that is absent from the KnowledgeBase is
\* surfaced to the caller as a hard error, as a lookup of an absent section is
\* (stated on the empty KnowledgeBase, where every name is absent).
C16_AbsentConceptIsError ==
    [][(exc'.tool = "KnowledgeBase_get_concept" /\ DependencyProvided(exc') /\ concepts = <<>>)
          => exc'.raised # "none"]_vars

\* C16, amended: a lookup of a concept is never an error: with its dependency
\* provided, the get_concept tool raises nothing and changes no store, whether
\* or not a concept of that name is stored; only the lookup of an absent section
\* is surfaced as a hard error.
C16_AbsentConceptReturnsNone ==
    [][/\ (exc'.tool = "KnowledgeBase_get_concept" /\ DependencyProvided(exc'))
            => (exc'.raised = "none" /\ UNCHANGED storeVars)
       /\ (exc'.tool = "StructureManager_get_section" /\ DependencyProvided(exc')
             /\ sections = <<>>)
            => (exc'.raised = "ValueError: section not found" /\ UNCHANGED storeVars)]_vars

\* The get_concept tool was called on an empty KnowledgeBase and raised nothing.
C16_Witness ==
    /\ exc.tool = "KnowledgeBase_get_concept"
    /\ DependencyProvided(exc)
    /\ concepts = <<>>
    /\ exc.raised = "none"

\* ----------------------------------------- further claims checked under SpecWF

\* Agent invocations started, and ended (returned or raised), among the first n events.
Started(n) == Cardinality({i \in 1..n : trace[i].ev = "invoke"})
Ended(n) ==
    Cardinality({i \in 1..n : \/ trace[i].ev = "return"
                              \/ trace[i].ev = "raised" /\ trace[i].agent # "driver"})

\* C19: within one workflow run at most one agent invocation is in flight at any
\* time: an invocation starts only when every earlier one has ended, and the
\* driver is inside an agent run exactly when one invocation is in flight, so the
\* tools that mutate the stores are called by one invocation at a time.
C19_OneInvocationInFlight ==
    /\ \A i \in DOMAIN trace : trace[i].ev = "invoke" => Started(i - 1) = Ended(i - 1)
    /\ Started(Len(trace)) - Ended(Len(trace)) \in {0, 1}
    /\ pc \in RunPcs <=> Started(Len(trace)) - Ended(Len(trace)) = 1
    /\ pc \in RunPcs =>
          /\ trace[Len(trace)].ev = "invoke"
          /\ trace[Len(trace)].agent = AgentAt(pc)

\* The reviewer runs, alone, after the architect, the stylist and three scriber
\* invocations have ended.
C19_Witness ==
    /\ pc = "reviewer_run"
    /\ Started(Len(trace)) = 6
    /\ Ended(Len(trace)) = 5

\* ------- SpecRetry: the workflow with a model that repeats its add_section calls

\* StructureManager_add_section tool invocations the agents of one run make in all.
MaxRetries == 2

\* A call the scriber or the reviewer makes of the add_section tool. The tool
\* functions are plain functions and add_section takes no lock, so the calls of
\* one run may overlap: each does the membership test, the append and the
\* guard update of add_section as steps of its own.

\* add_section_tool up to the membership test: a section whose index is in
\* _existed_section_idxs is skipped and the call returns.
AddSectionToolCheck ==
    /\ pc \in ToolPcs
    /\ tool_calls < MaxRetries
    /\ \E sec \in AgentSectionInputs :
          /\ add_section_tool_raises(WorkflowDeps, "structure_manager", sec) = "none"
          /\ add_section_calls' = IF add_section_skips(sec)
                                     THEN add_section_calls
                                     ELSE Append(add_section_calls,
                                                 [section |-> sec, at |-> "append"])
    /\ tool_calls' = tool_calls + 1
    /\ UNCHANGED <<storeVars, ret, exc, pc, body_items, body_i, bookend_i, section_result,
                   section_result_at, trace, article, output_file>>

\* self.sections.append(section)
AddSectionToolAppend ==
    /\ \E k \in DOMAIN add_section_calls :
          /\ add_section_calls[k].at = "append"
          /\ sections' = Append(sections, add_section_calls[k].section)
          /\ add_section_calls' = [add_section_calls EXCEPT ![k].at = "guard_add"]
    /\ UNCHANGED <<outline, keywords, title, existed_section_idxs, concepts, style_guide, ret, exc,
                   pc, body_items, body_i, bookend_i, section_result, section_result_at, trace,
                   article, output_file, tool_calls>>

\* self._existed_section_idxs.add(section.section_index), and the call returns.
AddSectionToolGuardAdd ==
    /\ \E k \in DOMAIN add_section_calls :
          /\ add_section_calls[k].at = "guard_add"
          /\ existed_section_idxs' =
                 existed_section_idxs \cup {add_section_calls[k].section.section_index}
          /\ add_section_calls' = [n \in 1..(Len(add_section_calls) - 1) |->
                                      add_section_calls[IF n < k THEN n ELSE n + 1]]
    /\ UNCHANGED <<outline, sections, keywords, title, concepts, style_guide, ret, exc,
                   pc, body_items, body_i, bookend_i, section_result, section_result_at, trace,
                   article, output_file, tool_calls>>

NextRetry ==
    \/ InvokeArchitect
    \/ ArchitectReturn
    \/ InvokeStylist
    \/ StylistReturn
    \/ InvokeScriberBody
    \/ ScriberBodyReturn
    \/ DriverAddBody
    \/ BodyDone
    \/ InvokeScriberBookend
    \/ BookendIndexError
    \/ ScriberBookendReturn
    \/ DriverAddBookend
    \/ BookendsDone
    \/ InvokeReviewer
    \/ ReviewerReturn
    \/ Assemble
    \/ WriteOutput
    \/ AgentRaises
    \/ AddSectionToolCheck
    \/ AddSectionToolAppend
    \/ AddSectionToolGuardAdd

SpecRetry == Init /\ [][NextRetry]_vars

\* C20: however the add_section tool invocations an agent repeats are
\* interleaved with each other and with the driver's add_section of the agents'
\* results, at most one section is stored per section_index.
C20_GuardUnderRepeats ==
    \A i \in Indices(sections) : Cardinality(PositionsOf(i)) = 1

\* ------------------------------- claims on the stores during a run (SpecWF)

\* C21: from the end of the Outline stage until the run ends, the outline held
\* by the StructureManager never changes, whatever tool calls the agents make.
C21_OutlineSetOnce ==
    [][pc \notin {"start", "architect_run"} => outline' = outline]_vars

\* C22: in every state before the reviewer invocation starts, the title and the
\* keywords still have their initial empty values, whatever tool calls the
\* earlier agents make.
C22_TitleKeywordsOnlyInReview ==
    pc \in {"start", "architect_run", "stylist_invoke", "stylist_run", "body_loop",
            "scriber_body_run", "body_add", "bookend_loop", "scriber_bookend_run",
            "bookend_add", "review"}
        => (title = "" /\ keywords = <<>>)

\* The sections stored, whatever their order.
StoredSections == {sections[k] : k \in DOMAIN sections}

\* C23: the document a successful run returns is to_markdown() of the final
\* StructureManager state and begins with "# " followed by the title the stores
\* hold when the review stage ends; the reviewer's textual output changes no
\* store, and nothing after the review stage changes title, keywords or sections.
C23_DocumentFromFinalState ==
    /\ [](pc \in {"returned", "written"} =>
             /\ article = RenderMarkdown(title, keywords, sections)
             /\ article.title_line[1] = "# "
             /\ article.title_line[2] = title)
    /\ [][(pc = "reviewer_run" /\ pc' = "assemble") => UNCHANGED storeVars]_vars
    /\ [][(pc \in {"assemble", "returned"}) =>
             (title' = title /\ keywords' = keywords /\ StoredSections' = StoredSections)]_vars

\* A run returned a document of two sections under the title a tool call set.
C23_Witness ==
    /\ pc = "returned"
    /\ title = "T1"
    /\ article.title_line = <<"# ", "T1", "\n\n">>
    /\ Len(sections) >= 2

\* C27: in a run whose agent invocations all succeed, for every outline length
\* n >= 1 the scriber is invoked exactly n times and every outline item is the
\* subject of exactly one scriber invocation (stated for runs whose agents
\* changed no store through a tool).
C27_EachItemOnce ==
    (pc = "review" /\ Len(ArchitectOutline) >= 1 /\ tool_calls = 0) =>
        /\ Len(ScriberSubjects) = Len(ArchitectOutline)
        /\ \A k \in DOMAIN ArchitectOutline :
              Cardinality({i \in DOMAIN ScriberSubjects :
                              ScriberSubjects[i] = Subject(ArchitectOutline[k])}) = 1

\* ------------------------------------ further claims checked under SpecStores

\* C29: style_guide_to_prompt() returns the lines Main Language, Tone, Voice,
\* Target Audience, in that order and with the guide's values, followed by a
\* Formatting Preferences line if and only if formatting_preferences is
\* non-empty; the call leaves the style guide, and every store, unchanged.
C29_StyleGuidePrompt ==
    [][ret'.op = "style_guide_to_prompt" =>
          LET lines == ret'.val
              n == IF style_guide.formatting_preferences = "" THEN 4 ELSE 5
          IN /\ UNCHANGED storeVars
             /\ Len(lines) = 2 * n - 1
             /\ \A k \in 1..(n - 1) : lines[2 * k] = "\n"
             /\ lines[1] = <<"Main Language: ", style_guide.main_language>>
             /\ lines[3] = <<"Tone: ", style_guide.tone>>
             /\ lines[5] = <<"Voice: ", style_guide.voice>>
             /\ lines[7] = <<"Target Audience: ", style_guide.target_audience>>
             /\ n = 5 => lines[9] = <<"Formatting Preferences: ",
                                      style_guide.formatting_preferences>>]_vars

\* The prompt of the default guide, whose formatting preferences are empty, has
\* four lines.
C29_Witness ==
    /\ ret.op = "style_guide_to_prompt"
    /\ style_guide.formatting_preferences = ""
    /\ Len(ret.val) = 7

\* --------------- SpecLive: the run under the scheduling the code guarantees

\* The statements of generate_article_workflow and main2 between two awaits.
DriverStep ==
    \/ InvokeArchitect
    \/ InvokeStylist
    \/ InvokeScriberBody
    \/ DriverAddBody
    \/ BodyDone
    \/ InvokeScriberBookend
    \/ BookendIndexError
    \/ DriverAddBookend
    \/ BookendsDone
    \/ InvokeReviewer
    \/ Assemble
    \/ WriteOutput

\* An awaited agent invocation returns its output.
AgentReturns ==
    \/ ArchitectReturn
    \/ StylistReturn
    \/ ScriberBodyReturn
    \/ ScriberBookendReturn
    \/ ReviewerReturn

\* A run as far as its progress goes: the driver, the agents' outcomes, and of the
\* tools an agent may call the one that changes what the driver indexes
\* (set_outline) and two that only read and may be called without end.
NextLive ==
    \/ DriverStep
    \/ AgentReturns
    \/ AgentRaises
    \/ AgentSetOutline
    \/ AgentGetSectionPlan
    \/ AgentGetSection

\* The driver is straight-line code that always takes its next step, and an
\* agent invocation that does not raise returns; each of these steps moves pc.
SpecLive == Init /\ [][NextLive]_vars /\ WF_pc(DriverStep) /\ WF_pc(AgentReturns)

AgentRaised == \E i \in DOMAIN trace : trace[i].ev = "raised" /\ trace[i].agent # "driver"
ShortOutline == ArchitectReturned /\ Len(outline) < 2

\* C26: if every agent invocation returns without raising and the outline has
\* at least 2 items, the run eventually reaches Assemble and returns the
\* document; and the run never waits anywhere but inside an agent invocation:
\* outside of one, and before its end, the driver's next step is enabled.
C26_RunReturns ==
    /\ <>(pc = "returned" \/ AgentRaised \/ ShortOutline)
    /\ [](pc \notin (RunPcs \cup {"written", "aborted"}) => ENABLED DriverStep)

\* A run over an outline of three items, in which no agent raised, has returned
\* its document.
C26_Witness ==
    /\ pc = "returned"
    /\ Len(ArchitectOutline) = 3
    /\ ~AgentRaised
    /\ Len(ScriberSubjects) = 3

\* --------------------------------------- SpecWF: the Outline and Style stages

EarlyPcs == {"start", "architect_run", "stylist_invoke", "stylist_run"}

\* The step is the driver's structure_manager.set_outline(outline.output).
IsDriverSetOutline ==
    /\ pc = "architect_run"
    /\ pc' = "stylist_invoke"
    /\ trace'[Len(trace')].ev = "return"
    /\ trace'[Len(trace')].agent = "architect"
    /\ outline' = trace'[Len(trace')].data

\* The step is the driver's StyleManager(style_guide=style_result.output), which
\* builds the store the later stages share.
IsStyleManagerBuilt ==
    /\ pc = "stylist_run"
    /\ pc' = "body_loop"
    /\ trace'[Len(trace')].ev = "return"
    /\ trace'[Len(trace')].agent = "stylist"
    /\ style_guide' = trace'[Len(trace')].data

\* What a step of the Outline or Style stage may do to the stores.
EarlyStageStep ==
    /\ UNCHANGED <<sections, keywords, title, existed_section_idxs, concepts>>
    /\ tool_calls' = tool_calls
    /\ (pc' = pc => UNCHANGED storeVars)
    /\ (outline' # outline => IsDriverSetOutline)
    /\ (style_guide' # style_guide => IsStyleManagerBuilt)

\* C31: in the Outline and Style stages no tool call of an agent changes a
\* store (none is made: the architect and the stylist get the base tools only);
\* the StructureManager changes only by the driver's set_outline with the
\* architect's output, the KnowledgeBase not at all, and the StyleManager only
\* comes to exist, built from the stylist's output, when the Style stage ends.
C31_EarlyStagesNoToolWrites == [][(pc \in EarlyPcs) => EarlyStageStep]_vars

\* The Style stage has ended: the outline is the architect's three items, the
\* style guide the stylist's, and nothing else has been written.
C31_Witness ==
    /\ pc = "body_loop"
    /\ body_i = 0
    /\ Len(outline) = 3
    /\ outline = ArchitectOutline
    /\ style_guide \in StylistOutputs
    /\ style_guide # DefaultStyleGuide
    /\ sections = <<>>
    /\ concepts = <<>>
    /\ tool_calls = 0

\* ------------------------------------------------- Spec: set_outline's frame

\* The step is a set_outline call.
SetOutlineStep == ret'.op = "set_outline"

\* The step is an add_section call, made right after a set_outline call, for an
\* index that a stored section has.
AddStoredAfterSetOutline ==
    /\ ret.op = "set_outline"
    /\ ret'.op = "add_section"
    /\ ret'.arg.section_index \in Indices(sections)

\* C32: set_outline(o) makes o the outline and changes nothing else: sections,
\* guard set, title and keywords stay as they were; so an add_section that
\* follows it, for the index of a section written before, is still refused.
C32_SetOutlineFrame ==
    /\ [][SetOutlineStep => (outline' = ret'.arg /\ UNCHANGED <<sections, existed_section_idxs, title, keywords>>)]_vars
    /\ [][AddStoredAfterSetOutline => (ret'.log # "" /\ UNCHANGED <<sections, existed_section_idxs>>)]_vars

\* set_outline has just replaced a two-item outline by the empty one while two
\* sections, a title and keywords are stored.
C32_Witness ==
    /\ ret.op = "set_outline"
    /\ ret.arg = <<>>
    /\ outline = <<>>
    /\ Len(sections) = 2
    /\ existed_section_idxs = Indices(sections)
    /\ title # ""
    /\ keywords # <<>>

\* ------------------------------------- SpecStores: the KnowledgeBase over time

\* A concept with this name is stored.
HasConcept(name) == \E k \in DOMAIN concepts : concepts[k].name = name

\* A lookup that finds a concept finds the same one after the step.
LookupsStable == \A n \in ConceptNames : HasConcept(n) => get_concept(n)' = get_concept(n)

\* C33: the KnowledgeBase only grows at its end and a lookup that has found a
\* concept keeps finding it: across every step the concept list is a prefix of
\* the next one and get_concept(name), once it finds c, finds c after the step
\* too (so in every later state); and c is what a get_concept call returns.
C33_AppendOnlyStableLookup ==
    /\ [][IsPrefixOf(concepts, concepts')]_vars
    /\ [][LookupsStable]_vars
    /\ []((ret.op = "get_concept" /\ HasConcept(ret.arg)) => ret.val = get_concept(ret.arg))

\* get_concept("AI") has just returned the first "AI" concept although another
\* one, with another definition, was added after it, and an "ML" concept too.
C33_Witness ==
    /\ ret.op = "get_concept"
    /\ ret.arg = "AI"
    /\ Len(concepts) = 3
    /\ concepts[1].name = "AI"
    /\ \E k \in 2..3 : concepts[k].name = "AI" /\ concepts[k] # concepts[1]
    /\ \E k \in 2..3 : concepts[k].name = "ML"
    /\ ret.val = concepts[1]

\* ------------------------------------------------- Spec: the guard set

\* C34: for a StructureManager created empty, the guard set
\* _existed_section_idxs is, in every reachable state, exactly the set of the
\* section_index values of the stored sections.
C34_GuardSetIsStoredIndices == existed_section_idxs = Indices(sections)

\* Two sections are stored, the one with the higher index first, one of them
\* has been modified, and an add_section for a stored index has just been refused.
C34_Witness ==
    /\ Len(sections) = 2
    /\ sections[1].section_index = 1
    /\ sections[2].section_index = 0
    /\ existed_section_idxs = {0, 1}
    /\ \E k \in DOMAIN sections : sections[k] \notin SectionInputs
    /\ ret.op = "add_section"
    /\ ret.log # ""

====
